---- MODULE Spec2Model ----
(***************************************************************************)
(* Kinematic position models and per-frame update callbacks of the         *)
(* mechanism animations: Ballscrew.py, BallscrewRotTrans.py,               *)
(* CylindricalCamOrthogonal.py, CylindricalCamPlanar.py and                *)
(* CylindricalCamRotTrans.py (specifications Spec and SpecFn), and of the  *)
(* two linkage animations BallscrewFlexLink.py and OrthogonalLinkage.py    *)
(* (specification SpecLinks; their angles are in units of 0.9 degrees and  *)
(* in whole degrees).                                                      *)
(*                                                                         *)
(* Numbers.  A Python float is a fixed-point integer in units of 1/Scale   *)
(* (1e-4): 2.5 is 25000.  An angle is an integer number of angle units,    *)
(* FullTurn units to 2*pi, so that every frame angle                       *)
(* angular_velocity * t[i] of the five scripts is an exact integer and the *)
(* comparison angle <= np.pi is exact.  Where the code uses pi as a number *)
(* (helix_pitch = translation_stroke / (2*pi)) its fixed-point value       *)
(* np_pi is used.  np.sin and np.cos are tabulated to 1e-4.                *)
(***************************************************************************)
EXTENDS Integers, Sequences, FiniteSets

\* ---------------------------------------------------------------- numbers

\* fixed-point unit of a float: 1.0 is Scale
Scale == 10000

\* angle units in 2*np.pi: one unit is pi/100, the angle of one frame at
\* angular_velocity = 2*pi/10 and dt = 0.05
FullTurn == 200

\* np.pi as an angle
HalfTurn == FullTurn \div 2

\* np.pi as a number, in units of 1/Scale
np_pi == 31416

Abs(a) == IF a < 0 THEN -a ELSE a

\* float product and quotient of two fixed-point numbers
FxMul(a, b) == (a * b) \div Scale
FxDiv(a, b) == (a * Scale) \div b

\* the ratio of two angles (angle / (2*np.pi)) as a fixed-point number
AngleRatio(a, b) == (a * Scale) \div b

\* np.sin over the first quarter turn, k*pi/100 for k = 0..50
SinTable ==
  << 0, 314, 628, 941, 1253, 1564, 1874, 2181, 2487, 2790,
     3090, 3387, 3681, 3971, 4258, 4540, 4818, 5090, 5358, 5621,
     5878, 6129, 6374, 6613, 6845, 7071, 7290, 7501, 7705, 7902,
     8090, 8271, 8443, 8607, 8763, 8910, 9048, 9178, 9298, 9409,
     9511, 9603, 9686, 9759, 9823, 9877, 9921, 9956, 9980, 9995,
     10000 >>

np_sin(angle) ==
  LET m == angle % FullTurn
      h == m % HalfTurn
      q == IF h <= HalfTurn \div 2 THEN h ELSE HalfTurn - h
  IN  IF m < HalfTurn THEN SinTable[q + 1] ELSE -SinTable[q + 1]

np_cos(angle) == np_sin(angle + HalfTurn \div 2)

\* ------------------------------------------------------------------ state

VARIABLES
  script,                \* the script that is running
  init_draw_pending,     \* the animation has yet to draw the first frame of a pass
  frame_seq,             \* next frame index of the animation's frame iterator
  calls,                 \* update calls since process start
  frame_log,             \* frame index given to each update call, in call order
  drive_trajectory_x,    \* screw_trajectory_x / cam_trajectory_x
  drive_trajectory_y,    \* screw_trajectory_y / cam_trajectory_y
  follower_trajectory_z, \* follower_trajectory_z
  artists,               \* data of the plot artists update writes
  fn,                    \* position function applied on its own ("none": not yet)
  fn_arg,                \* its argument
  fn_ret                 \* its result

vars ==
  << script, init_draw_pending, frame_seq, calls, frame_log, drive_trajectory_x,
     drive_trajectory_y, follower_trajectory_z, artists, fn, fn_arg, fn_ret >>

\* ------------------------------------------------------- simulation time

\* t_end = 10 seconds, dt = 0.05, t = np.arange(0, t_end, dt): the same three
\* lines in each of the five scripts
t_end == 100000
dt == 500
len_t == (t_end + dt - 1) \div dt
t(i) == i * dt

\* ------------------------------------------------------------ Ballscrew.py

Ballscrew_screw_radius == 5000
Ballscrew_screw_pitch == 25000
Ballscrew_screw_turns == 2
Ballscrew_screw_height == Ballscrew_screw_turns * Ballscrew_screw_pitch
\* 2*pi/10 per second, in angle units per second
Ballscrew_angular_velocity == FullTurn \div 10
Ballscrew_screw_offset_x == 0
Ballscrew_follower_offset_x == 25000

Ballscrew_follower_position_halfpitch(angle) ==
  FxMul(Ballscrew_screw_pitch, AngleRatio(angle, HalfTurn))

Ballscrew_follower_position(angle) ==
  FxMul(Ballscrew_screw_pitch, AngleRatio(angle, FullTurn))

Ballscrew_angle(i) == (Ballscrew_angular_velocity * t(i)) \div Scale
Ballscrew_screw_x(i) ==
  FxMul(Ballscrew_screw_radius, np_cos(Ballscrew_angle(i))) + Ballscrew_screw_offset_x

Ballscrew_screw_y_pitch(i) == FxMul(Ballscrew_screw_pitch, np_sin(Ballscrew_angle(i)))

Ballscrew_screw_y(i) == FxMul(Ballscrew_screw_radius, np_sin(Ballscrew_angle(i)))

\* the height integrated from the last recorded one instead of computed from the angle
Ballscrew_screw_z_incremental(i) ==
  IF follower_trajectory_z = << >>
  THEN 0
  ELSE follower_trajectory_z[Len(follower_trajectory_z)]
         + Ballscrew_follower_position(Ballscrew_angle(1))

Ballscrew_screw_z(i) == Ballscrew_follower_position(Ballscrew_angle(i))

\* ---------------------------------------------------- BallscrewRotTrans.py

BallscrewRotTrans_screw_radius == 5000
BallscrewRotTrans_screw_pitch == 25000
BallscrewRotTrans_screw_turns == 1
BallscrewRotTrans_screw_height == BallscrewRotTrans_screw_turns * BallscrewRotTrans_screw_pitch
BallscrewRotTrans_angular_velocity == FullTurn \div 10
BallscrewRotTrans_screw_offset_x == 0
BallscrewRotTrans_follower_offset_x == 25000

\* the step function the script defines (update never calls it)
BallscrewRotTrans_follower_position(angle) ==
  IF angle <= HalfTurn THEN 0 ELSE BallscrewRotTrans_screw_pitch

BallscrewRotTrans_angle(i) == (BallscrewRotTrans_angular_velocity * t(i)) \div Scale
BallscrewRotTrans_screw_x(i) ==
  FxMul(BallscrewRotTrans_screw_radius, np_cos(BallscrewRotTrans_angle(i)))
    + BallscrewRotTrans_screw_offset_x
BallscrewRotTrans_screw_y(i) ==
  FxMul(BallscrewRotTrans_screw_radius, np_sin(BallscrewRotTrans_angle(i)))

BallscrewRotTrans_follower_z_step(i) ==
  BallscrewRotTrans_follower_position(BallscrewRotTrans_angle(i))

BallscrewRotTrans_follower_z_nodeadzone(i) ==
  FxMul(FxDiv(t(i), t_end), BallscrewRotTrans_screw_pitch)

BallscrewRotTrans_follower_z_unshifted(i) ==
  IF BallscrewRotTrans_angle(i) <= HalfTurn
  THEN 0
  ELSE LET translation_time == t_end - (t_end \div 2)
           elapsed_time == t(i)
       IN  IF elapsed_time < translation_time
           THEN FxMul(FxDiv(elapsed_time, translation_time), BallscrewRotTrans_screw_pitch)
           ELSE BallscrewRotTrans_screw_pitch

\* the branch of update that sets follower_z = screw_pitch is taken for frame i
BallscrewRotTrans_saturated(i) ==
  /\ BallscrewRotTrans_angle(i) > HalfTurn
  /\ t(i) - (t_end \div 2) >= t_end - (t_end \div 2)

\* the follower height update computes inline
BallscrewRotTrans_follower_z(i) ==
  IF BallscrewRotTrans_angle(i) <= HalfTurn
  THEN 0
  ELSE LET translation_time == t_end - (t_end \div 2)
           elapsed_time == t(i) - (t_end \div 2)
       IN  IF elapsed_time < translation_time
           THEN FxMul(FxDiv(elapsed_time, translation_time), BallscrewRotTrans_screw_pitch)
           ELSE BallscrewRotTrans_screw_pitch

\* --------------------------------------------- CylindricalCamOrthogonal.py

CylindricalCamOrthogonal_cam_radius == 20000
CylindricalCamOrthogonal_amplitude == 10000
CylindricalCamOrthogonal_frequency == 1
\* 2*pi*frequency per second, in angle units per second
CylindricalCamOrthogonal_angular_velocity == FullTurn * CylindricalCamOrthogonal_frequency

CylindricalCamOrthogonal_angle(i) ==
  (CylindricalCamOrthogonal_angular_velocity * t(i)) \div Scale

CylindricalCamOrthogonal_follower_position_halfspeed(time) ==
  FxMul(CylindricalCamOrthogonal_amplitude,
        np_sin((CylindricalCamOrthogonal_angular_velocity * time) \div (2 * Scale)))

\* follower_position(t): the argument is a time
CylindricalCamOrthogonal_follower_position(time) ==
  FxMul(CylindricalCamOrthogonal_amplitude,
        np_sin((CylindricalCamOrthogonal_angular_velocity * time) \div Scale))

CylindricalCamOrthogonal_cam_x(i) ==
  FxMul(CylindricalCamOrthogonal_cam_radius + CylindricalCamOrthogonal_follower_position(t(i)),
        np_cos(CylindricalCamOrthogonal_angle(i)))
CylindricalCamOrthogonal_cam_y(i) ==
  FxMul(CylindricalCamOrthogonal_cam_radius + CylindricalCamOrthogonal_follower_position(t(i)),
        np_sin(CylindricalCamOrthogonal_angle(i)))
CylindricalCamOrthogonal_follower_z(i) == CylindricalCamOrthogonal_follower_position(t(i))

\* ------------------------------------------------- CylindricalCamPlanar.py

CylindricalCamPlanar_cam_radius == 20000
CylindricalCamPlanar_helix_pitch == 10000
CylindricalCamPlanar_turns == 3
CylindricalCamPlanar_cam_height == CylindricalCamPlanar_turns * CylindricalCamPlanar_helix_pitch
\* 2*pi/5 per second, in angle units per second
CylindricalCamPlanar_angular_velocity == FullTurn \div 5
CylindricalCamPlanar_cam_offset_x == 0
CylindricalCamPlanar_follower_offset_x == 30000

CylindricalCamPlanar_follower_position(angle) ==
  FxMul(CylindricalCamPlanar_helix_pitch, AngleRatio(angle, FullTurn))

CylindricalCamPlanar_angle(i) == (CylindricalCamPlanar_angular_velocity * t(i)) \div Scale
CylindricalCamPlanar_cam_x(i) ==
  FxMul(CylindricalCamPlanar_cam_radius, np_cos(CylindricalCamPlanar_angle(i)))
    + CylindricalCamPlanar_cam_offset_x
CylindricalCamPlanar_cam_y(i) ==
  FxMul(CylindricalCamPlanar_cam_radius, np_sin(CylindricalCamPlanar_angle(i)))
CylindricalCamPlanar_cam_z(i) == CylindricalCamPlanar_follower_position(CylindricalCamPlanar_angle(i))
CylindricalCamPlanar_follower_z(i) ==
  CylindricalCamPlanar_follower_position(CylindricalCamPlanar_angle(i))

\* ----------------------------------------------- CylindricalCamRotTrans.py

CylindricalCamRotTrans_cam_radius == 10000
CylindricalCamRotTrans_translation_stroke == 25000
CylindricalCamRotTrans_helix_turns == 1
CylindricalCamRotTrans_helix_pitch == FxDiv(CylindricalCamRotTrans_translation_stroke, 2 * np_pi)
CylindricalCamRotTrans_cam_height ==
  CylindricalCamRotTrans_helix_turns * CylindricalCamRotTrans_helix_pitch
CylindricalCamRotTrans_angular_velocity == FullTurn \div 10
CylindricalCamRotTrans_cam_offset_x == 0
CylindricalCamRotTrans_follower_offset_x == 25000

CylindricalCamRotTrans_follower_position_step(angle) ==
  IF angle <= HalfTurn THEN 0 ELSE CylindricalCamRotTrans_helix_pitch

CylindricalCamRotTrans_follower_position(angle) ==
  IF angle <= HalfTurn
  THEN 0
  ELSE FxMul(CylindricalCamRotTrans_helix_pitch, AngleRatio(angle - HalfTurn, FullTurn))

CylindricalCamRotTrans_angle(i) == (CylindricalCamRotTrans_angular_velocity * t(i)) \div Scale
CylindricalCamRotTrans_cam_x(i) ==
  FxMul(CylindricalCamRotTrans_cam_radius, np_cos(CylindricalCamRotTrans_angle(i)))
    + CylindricalCamRotTrans_cam_offset_x
CylindricalCamRotTrans_cam_y(i) ==
  FxMul(CylindricalCamRotTrans_cam_radius, np_sin(CylindricalCamRotTrans_angle(i)))
CylindricalCamRotTrans_cam_z == 0
CylindricalCamRotTrans_follower_z(i) ==
  CylindricalCamRotTrans_follower_position(CylindricalCamRotTrans_angle(i))

\* ---------------------------------------------------------------- scripts

Scripts ==
  { "Ballscrew", "BallscrewRotTrans", "CylindricalCamOrthogonal",
    "CylindricalCamPlanar", "CylindricalCamRotTrans" }

\* update calls modelled per run of a script (more than one pass of len_t frames)
MaxCalls == 205

\* largest angle handed to a position function on its own: three turns, the
\* longest groove (CylindricalCamPlanar)
MaxAngle == 600

\* ---------------------------------------------------------- the animation

\* FuncAnimation(fig, update, frames=len(t), ..., interval=50), repeat left at its
\* default: each pass draws frame 0 once (the initial draw) and then steps
\* through frames 0..frames-1; when the iterator is exhausted the pass restarts.
anim_frames_short == len_t - 1

anim_frames_long == len_t + 1

anim_frames == len_t

\* the frame index the next callback receives
anim_frame == IF init_draw_pending THEN 0 ELSE frame_seq

anim_advance ==
  IF init_draw_pending
  THEN /\ init_draw_pending' = FALSE
       /\ frame_seq' = 0
  ELSE /\ frame_seq' = frame_seq + 1
       /\ init_draw_pending' = (frame_seq + 1 >= anim_frames)

\* -------------------------------------------------------- the update body

\* list.append
append_reset(list, v) == IF Len(list) >= len_t THEN << v >> ELSE Append(list, v)

append(list, v) == Append(list, v)

\* t[:n] of the numpy array and list[:n] of a Python list
t_slice(n) == [k \in 1..(IF n < len_t THEN n ELSE len_t) |-> t(k - 1)]
list_slice(list, n) == SubSeq(list, 1, IF n < Len(list) THEN n ELSE Len(list))

\* the artist writes and the trajectory appends every update makes, given the
\* positions it computed for frame i
Store(i, x, y, drive_z, follower_x, follower_z, rod) ==
  /\ drive_trajectory_x' = append(drive_trajectory_x, x)
  /\ drive_trajectory_y' = append(drive_trajectory_y, y)
  /\ follower_trajectory_z' = append(follower_trajectory_z, follower_z)
  /\ artists' =
       [ drive |-> << x, y, drive_z >>,
         follower |-> << follower_x, 0, follower_z >>,
         follower_line |-> << << x, y, drive_z >>, << follower_x, 0, follower_z >> >>,
         rod |-> rod,
         drive_traj_plot |-> << drive_trajectory_x', drive_trajectory_y' >>,
         follower_traj_plot |-> << t_slice(i + 1), list_slice(follower_trajectory_z', i + 1) >> ]
  /\ calls' = calls + 1
  /\ frame_log' = Append(frame_log, i)
  /\ UNCHANGED << script, fn, fn_arg, fn_ret >>

Ballscrew_update ==
  /\ script = "Ballscrew"
  /\ calls < MaxCalls
  /\ LET i == anim_frame
         screw_z == Ballscrew_screw_z(i)
     IN  Store(i, Ballscrew_screw_x(i), Ballscrew_screw_y(i), screw_z,
               Ballscrew_follower_offset_x, screw_z,
               << Ballscrew_follower_offset_x, 0, screw_z, 0 >>)
  /\ anim_advance

BallscrewRotTrans_update ==
  /\ script = "BallscrewRotTrans"
  /\ calls < MaxCalls
  /\ LET i == anim_frame
         follower_z == BallscrewRotTrans_follower_z(i)
     IN  Store(i, BallscrewRotTrans_screw_x(i), BallscrewRotTrans_screw_y(i), follower_z,
               BallscrewRotTrans_follower_offset_x, follower_z,
               << BallscrewRotTrans_follower_offset_x, 0, follower_z, 0 >>)
  /\ anim_advance

CylindricalCamOrthogonal_update ==
  /\ script = "CylindricalCamOrthogonal"
  /\ calls < MaxCalls
  /\ LET i == anim_frame
     IN  Store(i, CylindricalCamOrthogonal_cam_x(i), CylindricalCamOrthogonal_cam_y(i), 0,
               0, CylindricalCamOrthogonal_follower_z(i), << >>)
  /\ anim_advance

CylindricalCamPlanar_update ==
  /\ script = "CylindricalCamPlanar"
  /\ calls < MaxCalls
  /\ LET i == anim_frame
     IN  Store(i, CylindricalCamPlanar_cam_x(i), CylindricalCamPlanar_cam_y(i),
               CylindricalCamPlanar_cam_z(i), CylindricalCamPlanar_follower_offset_x,
               CylindricalCamPlanar_follower_z(i), << >>)
  /\ anim_advance

CylindricalCamRotTrans_update ==
  /\ script = "CylindricalCamRotTrans"
  /\ calls < MaxCalls
  /\ LET i == anim_frame
         follower_z == CylindricalCamRotTrans_follower_z(i)
     IN  Store(i, CylindricalCamRotTrans_cam_x(i), CylindricalCamRotTrans_cam_y(i),
               CylindricalCamRotTrans_cam_z, CylindricalCamRotTrans_follower_offset_x,
               follower_z, << CylindricalCamRotTrans_follower_offset_x, 0, follower_z, 0 >>)
  /\ anim_advance

\* ------------------------------------------------- per-script dispatchers

\* screw_radius / cam_radius of a script
Radius(s) ==
  CASE s = "Ballscrew" -> Ballscrew_screw_radius
    [] s = "BallscrewRotTrans" -> BallscrewRotTrans_screw_radius
    [] s = "CylindricalCamOrthogonal" -> CylindricalCamOrthogonal_cam_radius
    [] s = "CylindricalCamPlanar" -> CylindricalCamPlanar_cam_radius
    [] s = "CylindricalCamRotTrans" -> CylindricalCamRotTrans_cam_radius

\* angle = angular_velocity * t[i] of a script's update
Angle(s, i) ==
  CASE s = "Ballscrew" -> Ballscrew_angle(i)
    [] s = "BallscrewRotTrans" -> BallscrewRotTrans_angle(i)
    [] s = "CylindricalCamOrthogonal" -> CylindricalCamOrthogonal_angle(i)
    [] s = "CylindricalCamPlanar" -> CylindricalCamPlanar_angle(i)
    [] s = "CylindricalCamRotTrans" -> CylindricalCamRotTrans_angle(i)

\* follower_position of a script, applied to x (an angle; a time in
\* CylindricalCamOrthogonal)
follower_position(s, x) ==
  CASE s = "Ballscrew" -> Ballscrew_follower_position(x)
    [] s = "BallscrewRotTrans" -> BallscrewRotTrans_follower_position(x)
    [] s = "CylindricalCamOrthogonal" -> CylindricalCamOrthogonal_follower_position(x)
    [] s = "CylindricalCamPlanar" -> CylindricalCamPlanar_follower_position(x)
    [] s = "CylindricalCamRotTrans" -> CylindricalCamRotTrans_follower_position(x)

\* the artists as the script creates them, before any update
InitialArtists(s) ==
  [ drive |-> << Radius(s), 0, 0 >>,
    follower |-> << 0, 0, 0 >>,
    follower_line |-> << << 0, 0, 0 >>, << 0, 0, 0 >> >>,
    rod |-> << >>,
    drive_traj_plot |-> << << >>, << >> >>,
    follower_traj_plot |-> << << >>, << >> >> ]

\* ------------------------------------------------- the running animation

Init ==
  /\ script \in Scripts
  /\ init_draw_pending = TRUE
  /\ frame_seq = 0
  /\ calls = 0
  /\ frame_log = << >>
  /\ drive_trajectory_x = << >>
  /\ drive_trajectory_y = << >>
  /\ follower_trajectory_z = << >>
  /\ artists = InitialArtists(script)
  /\ fn = "none"
  /\ fn_arg = 0
  /\ fn_ret = 0

Next ==
  \/ Ballscrew_update
  \/ BallscrewRotTrans_update
  \/ CylindricalCamOrthogonal_update
  \/ CylindricalCamPlanar_update
  \/ CylindricalCamRotTrans_update

Spec == Init /\ [][Next]_vars

\* ------------------------------- the position functions applied on their own

\* a script's follower_position is handed one argument of its domain: an angle
\* of up to MaxAngle units, or (CylindricalCamOrthogonal) the time of that many
\* time steps
InitFn ==
  /\ script \in Scripts
  /\ init_draw_pending = TRUE
  /\ frame_seq = 0
  /\ calls = 0
  /\ frame_log = << >>
  /\ drive_trajectory_x = << >>
  /\ drive_trajectory_y = << >>
  /\ follower_trajectory_z = << >>
  /\ artists = InitialArtists(script)
  /\ fn = "none"
  /\ fn_arg \in 0..MaxAngle
  /\ fn_ret = 0

Call_follower_position ==
  /\ fn = "none"
  /\ fn' = "follower_position"
  /\ fn_ret' = follower_position(script, IF script = "CylindricalCamOrthogonal"
                                         THEN t(fn_arg) ELSE fn_arg)
  /\ UNCHANGED << script, init_draw_pending, frame_seq, calls, frame_log,
                  drive_trajectory_x, drive_trajectory_y, follower_trajectory_z,
                  artists, fn_arg >>

\* the follower height BallscrewRotTrans.update computes inline for frame index
\* fn_arg
Call_update_follower_z ==
  /\ fn = "none"
  /\ script = "BallscrewRotTrans"
  /\ fn_arg < len_t
  /\ fn' = "update_follower_z"
  /\ fn_ret' = BallscrewRotTrans_follower_z(fn_arg)
  /\ UNCHANGED << script, init_draw_pending, frame_seq, calls, frame_log,
                  drive_trajectory_x, drive_trajectory_y, follower_trajectory_z,
                  artists, fn_arg >>

NextFn ==
  \/ Call_follower_position
  \/ Call_update_follower_z

SpecFn == InitFn /\ [][NextFn]_vars

\* ----------------------------------------------------------------- claims

Last(list) == list[Len(list)]

\* a position function has been applied on its own
Applied(s, f) == script = s /\ fn = f

\* C1: in the pure-rotation screw model (follower_position of Ballscrew.py and
\* CylindricalCamPlanar.py) the displacement at every angle is pitch * angle / (2*pi):
\* 0 at angle 0, the pitch at 2*pi, and 1.25 at frame 100 of Ballscrew (angle pi,
\* pitch 2.5).
C1_PureRotationDisplacement ==
  /\ Applied("Ballscrew", "follower_position") =>
       /\ fn_ret * FullTurn = Ballscrew_screw_pitch * fn_arg
       /\ fn_arg = 0 => fn_ret = 0
       /\ fn_arg = FullTurn => fn_ret = Ballscrew_screw_pitch
       /\ fn_arg = Ballscrew_angle(100) => fn_arg = HalfTurn /\ fn_ret = Scale + Scale \div 4
  /\ Applied("CylindricalCamPlanar", "follower_position") =>
       /\ fn_ret * FullTurn = CylindricalCamPlanar_helix_pitch * fn_arg
       /\ fn_arg = 0 => fn_ret = 0
       /\ fn_arg = FullTurn => fn_ret = CylindricalCamPlanar_helix_pitch

C1_Witness ==
  /\ Applied("Ballscrew", "follower_position")
  /\ fn_arg = Ballscrew_angle(100)
  /\ fn_ret = Scale + Scale \div 4

\* C2: in the dead-zone model the displacement after one full turn is the stroke:
\* CylindricalCamRotTrans.follower_position(2*pi) = translation_stroke, and the ramp
\* of BallscrewRotTrans.update is screw_pitch at the end of the turn (t = t_end).
C2_StrokeAtFullTurn ==
  /\ (Applied("CylindricalCamRotTrans", "follower_position") /\ fn_arg = FullTurn) =>
       fn_ret = CylindricalCamRotTrans_translation_stroke
  /\ BallscrewRotTrans_angle(len_t) = FullTurn
  /\ BallscrewRotTrans_follower_z(len_t) = BallscrewRotTrans_screw_pitch

\* a dead zone up to pi followed by a ramp proportional to angle - pi that is `top`
\* at 2*pi, to the fixed-point resolution
DeadZoneThenRamp(angle, value, top) ==
  /\ angle <= HalfTurn => value = 0
  /\ angle > HalfTurn =>
       /\ top > 0
       /\ Abs(value * HalfTurn - top * (angle - HalfTurn)) <= HalfTurn

\* C3 as claimed: follower_position of BallscrewRotTrans.py and of
\* CylindricalCamRotTrans.py are both 0 up to pi and a linear ramp, not a constant,
\* beyond pi.
C3_BothDeadZoneThenRamp ==
  /\ Applied("BallscrewRotTrans", "follower_position") =>
       DeadZoneThenRamp(fn_arg, fn_ret, BallscrewRotTrans_follower_position(FullTurn))
  /\ Applied("CylindricalCamRotTrans", "follower_position") =>
       DeadZoneThenRamp(fn_arg, fn_ret, CylindricalCamRotTrans_follower_position(FullTurn))

\* C3 as amended: CylindricalCamRotTrans.follower_position is 0 up to pi and a linear
\* ramp proportional to angle - pi beyond; BallscrewRotTrans.follower_position is 0 up
\* to pi and the constant screw_pitch beyond (a step).
C3_RampAndStep ==
  /\ Applied("CylindricalCamRotTrans", "follower_position") =>
       DeadZoneThenRamp(fn_arg, fn_ret, CylindricalCamRotTrans_follower_position(FullTurn))
  /\ Applied("BallscrewRotTrans", "follower_position") =>
       fn_ret = IF fn_arg <= HalfTurn THEN 0 ELSE BallscrewRotTrans_screw_pitch

C3_Witness ==
  \/ /\ Applied("BallscrewRotTrans", "follower_position")
     /\ fn_arg = HalfTurn + 1
     /\ fn_ret = BallscrewRotTrans_screw_pitch
  \/ /\ Applied("CylindricalCamRotTrans", "follower_position")
     /\ fn_arg = HalfTurn + 1
     /\ fn_ret > 0
     /\ fn_ret < CylindricalCamRotTrans_follower_position(FullTurn)

\* the point (x, y) is at distance r from the axis, to the fixed-point resolution
\* (r within 4/Scale)
OnCircle(x, y, r) == Abs(x * x + y * y - r * r) <= 8 * r

\* C4 as claimed: in every frame of every rotating-drive script the driving point
\* update computes lies on the circle of the script's radius, x^2 + y^2 = r^2.
C4_DrivePointOnCircle ==
  calls > 0 =>
    OnCircle(Last(drive_trajectory_x), Last(drive_trajectory_y), Radius(script))

\* C4 as amended: in Ballscrew, BallscrewRotTrans, CylindricalCamPlanar and
\* CylindricalCamRotTrans the driving point lies on the circle of the script's radius;
\* in CylindricalCamOrthogonal it lies at distance cam_radius + follower displacement
\* from the axis, between cam_radius - amplitude and cam_radius + amplitude.
C4_CircleOrCamProfile ==
  calls > 0 =>
    LET x == Last(drive_trajectory_x)
        y == Last(drive_trajectory_y)
        z == Last(follower_trajectory_z)
    IN  IF script = "CylindricalCamOrthogonal"
        THEN /\ OnCircle(x, y, CylindricalCamOrthogonal_cam_radius + z)
             /\ Abs(z) <= CylindricalCamOrthogonal_amplitude
        ELSE OnCircle(x, y, Radius(script))

C4_Witness ==
  /\ calls > 0
  /\ \/ /\ script = "CylindricalCamOrthogonal"
        /\ Last(follower_trajectory_z) = CylindricalCamOrthogonal_amplitude
        /\ ~OnCircle(Last(drive_trajectory_x), Last(drive_trajectory_y), Radius(script))
     \/ /\ script = "Ballscrew"
        /\ Last(frame_log) = 25
        /\ Last(drive_trajectory_x) > 0
        /\ Last(drive_trajectory_y) > 0

\* C5 as claimed: after any sequence of frame callbacks the animation issues, every
\* history entry was computed from a frame time no earlier than its predecessor's.
C5_TimeOrder ==
  \A k \in 2..Len(frame_log) :
    /\ Len(follower_trajectory_z) = Len(frame_log)
    /\ t(frame_log[k]) >= t(frame_log[k - 1])

\* C5 as amended: within one pass of the animation the history is in time order; an
\* entry is earlier than its predecessor only where the animation restarts, an entry
\* of frame 0 following the entry of the last frame len(t) - 1.
C5_TimeOrderWithinPass ==
  \A k \in 2..Len(frame_log) :
    /\ Len(drive_trajectory_x) = Len(frame_log)
    /\ Len(drive_trajectory_y) = Len(frame_log)
    /\ Len(follower_trajectory_z) = Len(frame_log)
    /\ \/ t(frame_log[k]) >= t(frame_log[k - 1])
       \/ frame_log[k] = 0 /\ frame_log[k - 1] = len_t - 1

C5_Witness ==
  /\ Len(frame_log) >= len_t + 2
  /\ frame_log[len_t + 1] = len_t - 1
  /\ frame_log[len_t + 2] = 0

\* list' is list with one element appended
Appended(list, list2) ==
  /\ Len(list2) = Len(list) + 1
  /\ SubSeq(list2, 1, Len(list)) = list

\* C6: the history is append-only with one entry per frame: every update call appends
\* exactly one element to each of the three lists and leaves the earlier ones as they
\* were, so after N calls each list has length N; no call, the wrap back to frame 0
\* included, truncates or resets a list.
C6_AppendOnly ==
  /\ [](/\ Len(drive_trajectory_x) = calls
        /\ Len(drive_trajectory_y) = calls
        /\ Len(follower_trajectory_z) = calls)
  /\ [][/\ calls' = calls + 1
        /\ Appended(drive_trajectory_x, drive_trajectory_x')
        /\ Appended(drive_trajectory_y, drive_trajectory_y')
        /\ Appended(follower_trajectory_z, follower_trajectory_z')]_vars

C6_Witness ==
  /\ calls = len_t + 4
  /\ Last(frame_log) = 1
  /\ Len(follower_trajectory_z) = calls

\* C7: in the dead-zone model the displacement is 0 at every angle of at most pi:
\* follower_position of CylindricalCamRotTrans.py and of BallscrewRotTrans.py, and the
\* follower_z BallscrewRotTrans.update computes for every frame whose angle is at
\* most pi.
C7_ZeroInDeadZone ==
  /\ (fn = "follower_position"
        /\ script \in {"BallscrewRotTrans", "CylindricalCamRotTrans"}
        /\ fn_arg <= HalfTurn) => fn_ret = 0
  /\ (fn = "update_follower_z" /\ BallscrewRotTrans_angle(fn_arg) <= HalfTurn) => fn_ret = 0

C7_Witness ==
  /\ fn = "update_follower_z"
  /\ BallscrewRotTrans_angle(fn_arg) = HalfTurn
  /\ fn_ret = 0

\* the last n update calls were given consecutive frame indices
ConsecutiveFrames(n) ==
  /\ calls >= n
  /\ \A k \in 1..(n - 1) : frame_log[calls - k + 1] = frame_log[calls - k] + 1

\* C8: in the dead-zone model (CylindricalCamRotTrans.follower_position as update
\* records it, and the follower_z of BallscrewRotTrans.update) the displacement never
\* decreases over consecutive frames with angle above pi, and it leaves the dead zone
\* without a jump: the first step out of 0 is no larger than the ramp step after it.
C8_RampContinuousMonotone ==
  script \in {"BallscrewRotTrans", "CylindricalCamRotTrans"} =>
    /\ (ConsecutiveFrames(2) /\ Angle(script, Last(frame_log)) > HalfTurn) =>
         follower_trajectory_z[calls] >= follower_trajectory_z[calls - 1]
    /\ (/\ ConsecutiveFrames(3)
        /\ Angle(script, frame_log[calls - 2]) <= HalfTurn
        /\ Angle(script, frame_log[calls - 1]) > HalfTurn) =>
         /\ follower_trajectory_z[calls - 2] = 0
         /\ follower_trajectory_z[calls - 1] - follower_trajectory_z[calls - 2]
              <= follower_trajectory_z[calls] - follower_trajectory_z[calls - 1]

C8_Witness ==
  /\ script = "BallscrewRotTrans"
  /\ ConsecutiveFrames(3)
  /\ Angle(script, frame_log[calls - 2]) = HalfTurn
  /\ follower_trajectory_z[calls - 1] > 0
  /\ follower_trajectory_z[calls] > follower_trajectory_z[calls - 1]

\* frames in one period 2*pi / angular_velocity of CylindricalCamOrthogonal
CylindricalCamOrthogonal_period_frames ==
  (FullTurn * Scale) \div (CylindricalCamOrthogonal_angular_velocity * dt)

\* C9: in the sinusoidal cam model (CylindricalCamOrthogonal.follower_position) the
\* displacement is amplitude * sin(angular_velocity * t): 0 at t = 0, periodic with
\* period 2*pi/angular_velocity, which is 20 frames (the displacement at frame i + 20
\* equals that at frame i), and never larger in magnitude than the amplitude.
C9_SinusoidPeriodic ==
  (script = "CylindricalCamOrthogonal" /\ calls > 0) =>
    /\ CylindricalCamOrthogonal_period_frames = 20
    /\ Last(follower_trajectory_z) =
         FxMul(CylindricalCamOrthogonal_amplitude, np_sin(Angle(script, Last(frame_log))))
    /\ Last(frame_log) = 0 => Last(follower_trajectory_z) = 0
    /\ Abs(Last(follower_trajectory_z)) <= CylindricalCamOrthogonal_amplitude
    /\ (calls > 20 /\ frame_log[calls - 20] + 20 = frame_log[calls]) =>
         follower_trajectory_z[calls] = follower_trajectory_z[calls - 20]

C9_Witness ==
  /\ script = "CylindricalCamOrthogonal"
  /\ calls > 20
  /\ frame_log[calls - 20] = 5
  /\ frame_log[calls] = 25
  /\ follower_trajectory_z[calls] = CylindricalCamOrthogonal_amplitude
  /\ follower_trajectory_z[calls - 20] = CylindricalCamOrthogonal_amplitude

Turns(s) ==
  CASE s = "Ballscrew" -> Ballscrew_screw_turns
    [] s = "BallscrewRotTrans" -> BallscrewRotTrans_screw_turns
    [] s = "CylindricalCamPlanar" -> CylindricalCamPlanar_turns
    [] s = "CylindricalCamRotTrans" -> CylindricalCamRotTrans_helix_turns

HelicalScripts ==
  { "Ballscrew", "BallscrewRotTrans", "CylindricalCamPlanar", "CylindricalCamRotTrans" }

\* C11: every frame lies inside the simulated domain, so no update call can fail: the
\* frame index i the animation supplies satisfies 0 <= i < len(t), the time t[i] lies
\* in [0, t_end), and in the helical scripts the angle angular_velocity * t[i] lies in
\* [0, 2*pi*turns).
C11_FrameInDomain ==
  calls > 0 =>
    LET i == Last(frame_log)
    IN  /\ 0 <= i /\ i < len_t
        /\ 0 <= t(i) /\ t(i) < t_end
        /\ script \in HelicalScripts =>
             /\ 0 <= Angle(script, i)
             /\ Angle(script, i) < FullTurn * Turns(script)

C11_Witness ==
  /\ script = "BallscrewRotTrans"
  /\ calls > 0
  /\ Last(frame_log) = len_t - 1
  /\ Angle(script, Last(frame_log)) = FullTurn * Turns(script) - 1

\* the follower displacement a script's update computes for frame i
FollowerZ(s, i) ==
  CASE s = "Ballscrew" -> Ballscrew_screw_z(i)
    [] s = "BallscrewRotTrans" -> BallscrewRotTrans_follower_z(i)
    [] s = "CylindricalCamOrthogonal" -> CylindricalCamOrthogonal_follower_z(i)
    [] s = "CylindricalCamPlanar" -> CylindricalCamPlanar_follower_z(i)
    [] s = "CylindricalCamRotTrans" -> CylindricalCamRotTrans_follower_z(i)

\* C12: after every update call (frame i) the follower trace is drawn from two
\* sequences of equal length i + 1, t[:i+1] and follower_trajectory_z[:i+1], and its
\* k-th point pairs the time t[k] with the follower displacement at time t[k], for the
\* callbacks the animation issues (an initial draw of frame 0, then frames
\* 0..len(t)-1, repeated).
C12_TracePairsTimeWithDisplacement ==
  calls > 0 =>
    LET i == Last(frame_log)
        times == artists.follower_traj_plot[1]
        heights == artists.follower_traj_plot[2]
    IN  /\ Len(times) = i + 1
        /\ Len(heights) = i + 1
        /\ \A k \in 1..(i + 1) :
             /\ times[k] = t(k - 1)
             /\ heights[k] = FollowerZ(script, k - 1)

\* ------------------------------------------------------------ axis limits

\* follower_offset_x of a script (CylindricalCamOrthogonal has none: its follower
\* is on the cam axis)
FollowerOffsetX(s) ==
  CASE s = "Ballscrew" -> Ballscrew_follower_offset_x
    [] s = "BallscrewRotTrans" -> BallscrewRotTrans_follower_offset_x
    [] s = "CylindricalCamOrthogonal" -> 0
    [] s = "CylindricalCamPlanar" -> CylindricalCamPlanar_follower_offset_x
    [] s = "CylindricalCamRotTrans" -> CylindricalCamRotTrans_follower_offset_x

\* limits << low, high >> of the 3D axes: ax.set_xlim, ax.set_ylim, ax.set_zlim
ax_xlim(s) == << -25000, 25000 + FollowerOffsetX(s) >>
ax_ylim(s) == << -25000, 25000 >>
ax_zlim(s) ==
  CASE s = "Ballscrew" -> << 0, Ballscrew_screw_height >>
    [] s = "BallscrewRotTrans" -> << 0, BallscrewRotTrans_screw_height + 25000 >>
    [] s = "CylindricalCamOrthogonal" -> << -15000, 15000 >>
    [] s = "CylindricalCamPlanar" -> << 0, CylindricalCamPlanar_cam_height >>
    [] s = "CylindricalCamRotTrans" -> << 0, CylindricalCamRotTrans_cam_height >>

\* limits of the XY trajectory plot: ax1.set_xlim, ax1.set_ylim
ax1_xlim(s) == << -25000, 25000 >>
ax1_ylim(s) == << -25000, 25000 >>

\* limits of the follower trajectory plot: ax2.set_ylim
ax2_ylim(s) ==
  CASE s = "Ballscrew" -> << 0, Ballscrew_screw_height >>
    [] s = "BallscrewRotTrans" -> << 0, BallscrewRotTrans_screw_pitch >>
    [] s = "CylindricalCamOrthogonal" ->
         << -CylindricalCamOrthogonal_amplitude, CylindricalCamOrthogonal_amplitude >>
    [] s = "CylindricalCamPlanar" -> << 0, CylindricalCamPlanar_cam_height >>
    [] s = "CylindricalCamRotTrans" -> << 0, CylindricalCamRotTrans_translation_stroke >>

Within(v, lim) == lim[1] <= v /\ v <= lim[2]

\* C13: in every frame of every script the plotted driving point and follower stay
\* inside the axis limits the script sets: the driving point's x and y within the XY
\* limits of the 3D axes and of the trajectory plot, the follower z within the z limits
\* of the 3D axes and the y limits of the follower trajectory plot.
C13_InsideAxisLimits ==
  calls > 0 =>
    /\ Within(artists.drive[1], ax_xlim(script))
    /\ Within(artists.drive[1], ax1_xlim(script))
    /\ Within(artists.drive[2], ax_ylim(script))
    /\ Within(artists.drive[2], ax1_ylim(script))
    /\ Within(artists.follower[3], ax_zlim(script))
    /\ Within(artists.follower[3], ax2_ylim(script))

\* ---------------------------------------------------------- groove profiles

\* z of the static groove profile at the angle theta (the scripts sample theta
\* with np.linspace(0, 2*pi*turns, 1000) and compute the profile elementwise)
Ballscrew_screw_profile_z(theta) ==
  FxMul(Ballscrew_screw_pitch, AngleRatio(theta, FullTurn))

BallscrewRotTrans_screw_profile_z(theta) ==
  FxMul(BallscrewRotTrans_screw_pitch, AngleRatio(theta, FullTurn))

CylindricalCamPlanar_cam_profile_z(theta) ==
  (CylindricalCamPlanar_helix_pitch * theta) \div FullTurn

CylindricalCamRotTrans_cam_profile_z(theta) ==
  IF theta <= HalfTurn
  THEN 0
  ELSE FxMul(CylindricalCamRotTrans_helix_pitch, AngleRatio(theta - HalfTurn, FullTurn))

profile_z(s, theta) ==
  CASE s = "Ballscrew" -> Ballscrew_screw_profile_z(theta)
    [] s = "BallscrewRotTrans" -> BallscrewRotTrans_screw_profile_z(theta)
    [] s = "CylindricalCamPlanar" -> CylindricalCamPlanar_cam_profile_z(theta)
    [] s = "CylindricalCamRotTrans" -> CylindricalCamRotTrans_cam_profile_z(theta)

\* C14: in each helical script the follower follows the drawn groove: at every angle
\* in [0, 2*pi*turns] the follower displacement the animation uses (follower_position
\* in Ballscrew, CylindricalCamPlanar and CylindricalCamRotTrans; the follower_z of
\* update in BallscrewRotTrans) equals the z of the static groove profile at that angle.
C14_FollowerOnGroove ==
  /\ (/\ fn = "follower_position"
      /\ script \in {"Ballscrew", "CylindricalCamPlanar", "CylindricalCamRotTrans"}
      /\ fn_arg <= FullTurn * Turns(script)) =>
       fn_ret = profile_z(script, fn_arg)
  /\ fn = "update_follower_z" =>
       fn_ret = profile_z("BallscrewRotTrans", BallscrewRotTrans_angle(fn_arg))

\* ------------------------------------------------------ BallscrewFlexLink.py

\* np.sin over the first quarter turn in steps of 0.9 degrees, k = 0..100
SinTable_0_9deg ==
  << 0, 157, 314, 471, 628, 785, 941, 1097, 1253, 1409,
     1564, 1719, 1874, 2028, 2181, 2334, 2487, 2639, 2790, 2940,
     3090, 3239, 3387, 3535, 3681, 3827, 3971, 4115, 4258, 4399,
     4540, 4679, 4818, 4955, 5090, 5225, 5358, 5490, 5621, 5750,
     5878, 6004, 6129, 6252, 6374, 6494, 6613, 6730, 6845, 6959,
     7071, 7181, 7290, 7396, 7501, 7604, 7705, 7804, 7902, 7997,
     8090, 8181, 8271, 8358, 8443, 8526, 8607, 8686, 8763, 8838,
     8910, 8980, 9048, 9114, 9178, 9239, 9298, 9354, 9409, 9461,
     9511, 9558, 9603, 9646, 9686, 9724, 9759, 9792, 9823, 9851,
     9877, 9900, 9921, 9940, 9956, 9969, 9980, 9989, 9995, 9999,
     10000 >>

\* a quarter turn in units of 0.9 degrees
RightAngle_0_9deg == 100

\* np.sin and np.cos of an angle given in units of 0.9 degrees
np_sin_0_9deg(angle) ==
  LET m == angle % (4 * RightAngle_0_9deg)
      h == m % (2 * RightAngle_0_9deg)
      q == IF h <= RightAngle_0_9deg THEN h ELSE 2 * RightAngle_0_9deg - h
  IN  IF m < 2 * RightAngle_0_9deg THEN SinTable_0_9deg[q + 1] ELSE -SinTable_0_9deg[q + 1]

np_cos_0_9deg(angle) == np_sin_0_9deg(angle + RightAngle_0_9deg)

BallscrewFlexLink_pivot_x == 10000
BallscrewFlexLink_pivot_y == 20000
BallscrewFlexLink_follower_x == 25000
BallscrewFlexLink_screw_x == 15000
BallscrewFlexLink_initial_y == 20000

\* frames=np.arange(0, 200)
BallscrewFlexLink_frames == 200

\* np.radians(frame * 90 / 100), in units of 0.9 degrees
BallscrewFlexLink_angle(frame) == (frame * 90 * 10) \div (100 * 9)

BallscrewFlexLink_follower_y_rotated(frame) ==
  BallscrewFlexLink_pivot_y + np_sin_0_9deg(BallscrewFlexLink_angle(frame))

BallscrewFlexLink_follower_z_rotated(frame) ==
  np_cos_0_9deg(BallscrewFlexLink_angle(frame))

BallscrewFlexLink_translating_late(frame) == frame > 100

\* the condition of the second block of update
BallscrewFlexLink_translating(frame) == frame >= 100

BallscrewFlexLink_translation_height(frame) ==
  LET translation_frame == frame - 100
  IN  4 * FxDiv(translation_frame, 100)

\* what the two set_data / set_3d_properties calls leave in follower_line
BallscrewFlexLink_follower_line(frame) ==
  IF BallscrewFlexLink_translating(frame)
  THEN << << BallscrewFlexLink_follower_x, BallscrewFlexLink_follower_x >>,
          << BallscrewFlexLink_translation_height(frame),
             BallscrewFlexLink_translation_height(frame) >>,
          << 0, 0 >> >>
  ELSE << << BallscrewFlexLink_follower_x, BallscrewFlexLink_follower_x >>,
          << BallscrewFlexLink_follower_y_rotated(frame),
             BallscrewFlexLink_follower_y_rotated(frame) >>,
          << BallscrewFlexLink_follower_z_rotated(frame),
             BallscrewFlexLink_follower_z_rotated(frame) >> >>

BallscrewFlexLink_linkage2_line(frame) ==
  IF BallscrewFlexLink_translating(frame)
  THEN << << BallscrewFlexLink_pivot_x, BallscrewFlexLink_follower_x >>,
          << BallscrewFlexLink_pivot_y, BallscrewFlexLink_translation_height(frame) >>,
          << 0, 0 >> >>
  ELSE << << BallscrewFlexLink_pivot_x, BallscrewFlexLink_follower_x >>,
          << BallscrewFlexLink_pivot_y, BallscrewFlexLink_follower_y_rotated(frame) >>,
          << 0, BallscrewFlexLink_follower_z_rotated(frame) >> >>

\* set_ydata([2, pivot_y]) on the line plotted with linkage1_x and z = [0, 0]
BallscrewFlexLink_linkage1_line ==
  << << BallscrewFlexLink_screw_x, BallscrewFlexLink_pivot_x >>,
     << BallscrewFlexLink_initial_y, BallscrewFlexLink_pivot_y >>,
     << 0, 0 >> >>

BallscrewFlexLink_InitialArtists ==
  [ follower_line |-> << << BallscrewFlexLink_follower_x, BallscrewFlexLink_follower_x >>,
                         << BallscrewFlexLink_initial_y, BallscrewFlexLink_initial_y >>,
                         << 0, 0 >> >>,
    linkage1_line |-> BallscrewFlexLink_linkage1_line,
    linkage2_line |-> << << BallscrewFlexLink_pivot_x, BallscrewFlexLink_follower_x >>,
                         << BallscrewFlexLink_pivot_y, BallscrewFlexLink_initial_y >>,
                         << 0, 0 >> >> ]

\* ------------------------------------------------------ OrthogonalLinkage.py

\* np.sin over the first quarter turn in whole degrees, k = 0..90
SinTable_deg ==
  << 0, 175, 349, 523, 698, 872, 1045, 1219, 1392, 1564,
     1736, 1908, 2079, 2250, 2419, 2588, 2756, 2924, 3090, 3256,
     3420, 3584, 3746, 3907, 4067, 4226, 4384, 4540, 4695, 4848,
     5000, 5150, 5299, 5446, 5592, 5736, 5878, 6018, 6157, 6293,
     6428, 6561, 6691, 6820, 6947, 7071, 7193, 7314, 7431, 7547,
     7660, 7771, 7880, 7986, 8090, 8192, 8290, 8387, 8480, 8572,
     8660, 8746, 8829, 8910, 8988, 9063, 9135, 9205, 9272, 9336,
     9397, 9455, 9511, 9563, 9613, 9659, 9703, 9744, 9781, 9816,
     9848, 9877, 9903, 9925, 9945, 9962, 9976, 9986, 9994, 9998,
     10000 >>

\* np.sin and np.cos of np.radians(deg) for a whole number of degrees
np_sin_deg(deg) ==
  LET m == deg % 360
      h == m % 180
      q == IF h <= 90 THEN h ELSE 180 - h
  IN  IF m < 180 THEN SinTable_deg[q + 1] ELSE -SinTable_deg[q + 1]

np_cos_deg(deg) == np_sin_deg(deg + 90)

OrthogonalLinkage_linkage_length_A == 10000
OrthogonalLinkage_linkage_length_B == 10000

\* frames=np.arange(0, 360, 2): the number of frames and the k-th frame
OrthogonalLinkage_frames == 360 \div 2
OrthogonalLinkage_frame(k) == 0 + 2 * k

OrthogonalLinkage_lim == << -20000, 20000 >>

\* the angles in degrees (np.radians is applied inside np_sin_deg, np_cos_deg)
OrthogonalLinkage_theta_A(frame) == frame
OrthogonalLinkage_theta_B(frame) == (frame * 15) \div 10

OrthogonalLinkage_A_x(frame) ==
  FxMul(OrthogonalLinkage_linkage_length_A, np_cos_deg(OrthogonalLinkage_theta_A(frame)))
OrthogonalLinkage_A_y(frame) ==
  FxMul(OrthogonalLinkage_linkage_length_A, np_sin_deg(OrthogonalLinkage_theta_A(frame)))
OrthogonalLinkage_A_z == 0

OrthogonalLinkage_B_x(frame) ==
  FxMul(OrthogonalLinkage_linkage_length_B, np_cos_deg(OrthogonalLinkage_theta_B(frame)))
OrthogonalLinkage_B_y == 0
OrthogonalLinkage_B_z(frame) ==
  FxMul(OrthogonalLinkage_linkage_length_B, np_sin_deg(OrthogonalLinkage_theta_B(frame)))

OrthogonalLinkage_line_A(frame) ==
  << << 0, OrthogonalLinkage_A_x(frame) >>,
     << 0, OrthogonalLinkage_A_y(frame) >>,
     << 0, OrthogonalLinkage_A_z >> >>

OrthogonalLinkage_line_B_from_origin(frame) ==
  << << 0, OrthogonalLinkage_B_x(frame) >>,
     << 0, OrthogonalLinkage_B_y >>,
     << 0, OrthogonalLinkage_B_z(frame) >> >>

OrthogonalLinkage_line_B(frame) ==
  << << OrthogonalLinkage_A_x(frame), OrthogonalLinkage_A_x(frame) + OrthogonalLinkage_B_x(frame) >>,
     << OrthogonalLinkage_A_y(frame), OrthogonalLinkage_A_y(frame) + OrthogonalLinkage_B_y >>,
     << 0, OrthogonalLinkage_B_z(frame) >> >>

\* ax.plot([], [], []) and what init() leaves
OrthogonalLinkage_EmptyArtists ==
  [ line_A |-> << << >>, << >>, << >> >>,
    line_B |-> << << >>, << >>, << >> >> ]

\* ------------------------------------------- the two linkage animations

LinkScripts == { "BallscrewFlexLink", "OrthogonalLinkage" }

link_frames(s) ==
  CASE s = "BallscrewFlexLink" -> BallscrewFlexLink_frames
    [] s = "OrthogonalLinkage" -> OrthogonalLinkage_frames

\* the animation moves on to the next frame; after the last frame of a pass the
\* next pass starts with another initial draw
link_advance ==
  IF init_draw_pending
  THEN /\ init_draw_pending' = FALSE
       /\ frame_seq' = 0
  ELSE /\ frame_seq' = frame_seq + 1
       /\ init_draw_pending' = (frame_seq + 1 >= link_frames(script))

\* BallscrewFlexLink has no init_func: the initial draw calls update with frame 0
BallscrewFlexLink_update ==
  /\ script = "BallscrewFlexLink"
  /\ calls < MaxCalls
  /\ LET frame == anim_frame
     IN  /\ artists' = [ follower_line |-> BallscrewFlexLink_follower_line(frame),
                         linkage1_line |-> BallscrewFlexLink_linkage1_line,
                         linkage2_line |-> BallscrewFlexLink_linkage2_line(frame) ]
         /\ frame_log' = Append(frame_log, frame)
  /\ calls' = calls + 1
  /\ link_advance
  /\ UNCHANGED << script, drive_trajectory_x, drive_trajectory_y,
                  follower_trajectory_z, fn, fn_arg, fn_ret >>

\* OrthogonalLinkage passes init_func=init: the initial draw calls init()
OrthogonalLinkage_init ==
  /\ script = "OrthogonalLinkage"
  /\ calls < MaxCalls
  /\ init_draw_pending
  /\ artists' = OrthogonalLinkage_EmptyArtists
  /\ link_advance
  /\ UNCHANGED << script, calls, frame_log, drive_trajectory_x, drive_trajectory_y,
                  follower_trajectory_z, fn, fn_arg, fn_ret >>

OrthogonalLinkage_update ==
  /\ script = "OrthogonalLinkage"
  /\ calls < MaxCalls
  /\ ~init_draw_pending
  /\ LET frame == OrthogonalLinkage_frame(frame_seq)
     IN  /\ artists' = [ line_A |-> OrthogonalLinkage_line_A(frame),
                         line_B |-> OrthogonalLinkage_line_B(frame) ]
         /\ frame_log' = Append(frame_log, frame)
  /\ calls' = calls + 1
  /\ link_advance
  /\ UNCHANGED << script, drive_trajectory_x, drive_trajectory_y,
                  follower_trajectory_z, fn, fn_arg, fn_ret >>

InitLinks ==
  /\ script \in LinkScripts
  /\ init_draw_pending = TRUE
  /\ frame_seq = 0
  /\ calls = 0
  /\ frame_log = << >>
  /\ drive_trajectory_x = << >>
  /\ drive_trajectory_y = << >>
  /\ follower_trajectory_z = << >>
  /\ artists = IF script = "BallscrewFlexLink"
               THEN BallscrewFlexLink_InitialArtists
               ELSE OrthogonalLinkage_EmptyArtists
  /\ fn = "none"
  /\ fn_arg = 0
  /\ fn_ret = 0

NextLinks ==
  \/ BallscrewFlexLink_update
  \/ OrthogonalLinkage_init
  \/ OrthogonalLinkage_update

SpecLinks == InitLinks /\ [][NextLinks]_vars

\* the last callback of the running linkage script was update
LinkUpdated(s) ==
  /\ script = s
  /\ calls > 0
  /\ (frame_seq > 0 \/ init_draw_pending)

\* C15: in BallscrewFlexLink the rotation phase comes before the translation phase in
\* every pass over frames 0..199: after update(frame) with frame < 100 the follower is
\* at y = pivot_y + sin(angle), z = cos(angle) with angle = frame * 0.9 degrees within
\* 0..90 degrees; with frame in 100..199 the follower and the far end of linkage 2 are
\* at y = 4 * (frame - 100) / 100, z = 0 (the rotated values are overwritten); and a
\* frame below 100 follows a frame from 100 on only where a new pass starts at frame 0.
C15_RotationThenTranslation ==
  LinkUpdated("BallscrewFlexLink") =>
    LET frame == Last(frame_log)
        y == BallscrewFlexLink_translation_height(frame)
        follower == artists.follower_line
        linkage2 == artists.linkage2_line
    IN  /\ 0 <= frame /\ frame < BallscrewFlexLink_frames
        /\ frame < 100 =>
             /\ 0 <= BallscrewFlexLink_angle(frame)
             /\ BallscrewFlexLink_angle(frame) <= RightAngle_0_9deg
             /\ follower[2] = << BallscrewFlexLink_pivot_y + np_sin_0_9deg(frame),
                                 BallscrewFlexLink_pivot_y + np_sin_0_9deg(frame) >>
             /\ follower[3] = << np_cos_0_9deg(frame), np_cos_0_9deg(frame) >>
        /\ frame >= 100 =>
             /\ y = (4 * (frame - 100) * Scale) \div 100
             /\ follower[2] = << y, y >>
             /\ follower[3] = << 0, 0 >>
             /\ linkage2[2][2] = y
             /\ linkage2[3][2] = 0
        /\ \A j \in 1..(Len(frame_log) - 1) :
             (frame_log[j] >= 100 /\ frame_log[j + 1] < 100) =>
               (frame_log[j] = BallscrewFlexLink_frames - 1 /\ frame_log[j + 1] = 0)

C15_Witness ==
  /\ LinkUpdated("BallscrewFlexLink")
  /\ calls = BallscrewFlexLink_frames + 1
  /\ frame_log[101] = 99
  /\ Last(frame_log) = 199
  /\ artists.follower_line[2] = << 39600, 39600 >>

\* the larger of the two per-frame steps of the follower: 4/100 per translation frame
BallscrewFlexLink_step == (4 * Scale) \div 100

\* C16: in BallscrewFlexLink there is no jump at the hand-over between the phases: from
\* the call with frame 99 to the call with frame 100 the follower's displayed y and z
\* each change by no more than one per-frame step.
C16_NoJumpAtHandOver ==
  [][ (/\ script = "BallscrewFlexLink"
       /\ calls > 0
       /\ calls' = calls + 1
       /\ Last(frame_log) = 99
       /\ Last(frame_log') = 100) =>
      (/\ Abs(artists'.follower_line[2][1] - artists.follower_line[2][1])
            <= BallscrewFlexLink_step
       /\ Abs(artists'.follower_line[3][1] - artists.follower_line[3][1])
            <= BallscrewFlexLink_step) ]_vars

\* C17: after OrthogonalLinkage.update(frame), frame in 0, 2, ..., 358, link A runs from
\* the origin to the point at distance linkage_length_A in the XY plane given by theta_A,
\* link B starts at link A's tip and is a vector of length linkage_length_B in the XZ
\* plane given by theta_B, and the end point of the chain is within the [-2, 2] limits.
C17_ConnectedRigidChain ==
  LinkUpdated("OrthogonalLinkage") =>
    LET frame == Last(frame_log)
        a == artists.line_A
        b == artists.line_B
        L_A == OrthogonalLinkage_linkage_length_A
        L_B == OrthogonalLinkage_linkage_length_B
        b_x == b[1][2] - b[1][1]
        b_y == b[2][2] - b[2][1]
        b_z == b[3][2] - b[3][1]
    IN  /\ frame \in { 2 * k : k \in 0..179 }
        /\ a[1][1] = 0 /\ a[2][1] = 0 /\ a[3][1] = 0
        /\ a[1][2] = FxMul(L_A, np_cos_deg(frame))
        /\ a[2][2] = FxMul(L_A, np_sin_deg(frame))
        /\ a[3][2] = 0
        /\ OnCircle(a[1][2], a[2][2], L_A)
        /\ b[1][1] = a[1][2] /\ b[2][1] = a[2][2] /\ b[3][1] = a[3][2]
        /\ b_x = FxMul(L_B, np_cos_deg((3 * frame) \div 2))
        /\ b_y = 0
        /\ b_z = FxMul(L_B, np_sin_deg((3 * frame) \div 2))
        /\ OnCircle(b_x, b_z, L_B)
        /\ Within(b[1][2], OrthogonalLinkage_lim)
        /\ Within(b[2][2], OrthogonalLinkage_lim)
        /\ Within(b[3][2], OrthogonalLinkage_lim)

C17_Witness ==
  /\ LinkUpdated("OrthogonalLinkage")
  /\ calls = OrthogonalLinkage_frames
  /\ Last(frame_log) = 358
  /\ artists.line_B[1][1] # 0
  /\ artists.line_B[3][2] # 0

\* C18: in BallscrewRotTrans, for every frame past the dead zone update leaves the
\* follower at (t[i] - t_end/2) / (t_end/2) * screw_pitch, strictly below screw_pitch,
\* and for no frame index 0..len(t)-1 the branch follower_z = screw_pitch is taken.
C18_NeverSaturates ==
  /\ \A i \in 0..(len_t - 1) : ~BallscrewRotTrans_saturated(i)
  /\ (script = "BallscrewRotTrans" /\ calls > 0) =>
       LET i == Last(frame_log)
       IN  /\ artists.follower[3] < BallscrewRotTrans_screw_pitch
           /\ BallscrewRotTrans_angle(i) > HalfTurn =>
                artists.follower[3] =
                  FxMul(FxDiv(t(i) - t_end \div 2, t_end \div 2), BallscrewRotTrans_screw_pitch)

C18_Witness ==
  /\ script = "BallscrewRotTrans"
  /\ calls = len_t + 1
  /\ Last(frame_log) = len_t - 1
  /\ artists.follower[3] = 24750

====
